---- MODULE Spec2Model ----
(***************************************************************************)
(* ClarifyMeet AI (src/src/streamlit_app.py): a Streamlit script that      *)
(* turns a meeting transcript into structured minutes through one call to  *)
(* a generative model.                                                     *)
(*                                                                         *)
(* Python values are records [t, s, l]: t is the type tag, s the content   *)
(* of a str, l the elements of a list, the (key, value) pairs of a dict in *)
(* insertion order, or the lexemes of a text.  A text is a str whose       *)
(* content matters lexeme by lexeme (the model's reply, a JSON document);  *)
(* a lexeme is a record of the same shape.                                 *)
(***************************************************************************)
EXTENDS Integers, Sequences, FiniteSets, TLC

VARIABLES
    pc,            \* which specification is running and where it stands
    reply,         \* what the model was asked to put in its reply
    raw_text,      \* summarize_meeting: response.text
    summary,       \* summarize_meeting: the call's outcome
    item,          \* format_action_item: its argument
    line,          \* format_action_item: its result
    secrets,       \* outcome of st.secrets["GEMINI_API_KEY"]
    environ,       \* os.getenv("GEMINI_API_KEY")
    transcript,    \* the text area's content, a sequence of characters
    minutes,       \* st.session_state.minutes
    raw_json,      \* st.session_state.raw_json
    raw_response,  \* st.session_state.raw_response
    client_cache,  \* the keys st.cache_resource holds a client for
    event,         \* the interaction that started the last script run
    api_key,       \* outcome of load_api_key() in the last run
    requests,      \* the transcripts sent to the model in the last run
    screen         \* what the last run rendered

locals == <<reply, raw_text, summary>>
formatter == <<item, line>>
session == <<secrets, environ, transcript, minutes, raw_json, raw_response,
             client_cache, event, api_key, requests, screen>>
vars == <<pc, locals, formatter, session>>

-----------------------------------------------------------------------------
(* Bounds *)

MaxListLen == 1
MaxTranscriptLen == 2

-----------------------------------------------------------------------------
(* Python values *)

PyNone == [t |-> "null", s |-> "", l |-> <<>>]
Str(x) == [t |-> "str", s |-> x, l |-> <<>>]
List(xs) == [t |-> "list", s |-> "", l |-> xs]
Pair(k, v) == [t |-> "pair", s |-> k, l |-> <<v>>]
Dict(pairs) == [t |-> "dict", s |-> "", l |-> pairs]
Text(lexemes) == [t |-> "text", s |-> "", l |-> lexemes]

Front(xs) == SubSeq(xs, 1, Len(xs) - 1)

\* bool(v)
Truthy(v) ==
    CASE v.t = "null" -> FALSE
      [] v.t = "str" -> v.s # ""
      [] OTHER -> v.l # <<>>

Keys(d) == {d.l[i].s : i \in DOMAIN d.l}

\* key in d
HasKey(d, k) == k \in Keys(d)

\* d[k], for a key d has
Get(d, k) == d.l[CHOOSE i \in DOMAIN d.l : d.l[i].s = k].l[1]

\* d.get(k, default)
GetOr(d, k, default) == IF HasKey(d, k) THEN Get(d, k) ELSE default

\* d[k] = v: a key already there keeps its place, a new key goes last
DictSet(d, k, v) ==
    IF HasKey(d, k)
    THEN Dict([i \in DOMAIN d.l |-> IF d.l[i].s = k THEN Pair(k, v) ELSE d.l[i]])
    ELSE Dict(Append(d.l, Pair(k, v)))

RECURSIVE UpdateAll(_, _)
UpdateAll(d, pairs) ==
    IF pairs = <<>> THEN d
    ELSE UpdateAll(DictSet(d, pairs[1].s, pairs[1].l[1]), Tail(pairs))

\* {**b, **a}: the operands the wrong way round
MergeSwapped(a, b) == UpdateAll(b, a.l)

\* {**a, **b}, for two dicts
Merge(a, b) == UpdateAll(a, b.l)

\* a == b on dicts: the same keys with the same values, in any order
DictEq(a, b) ==
    /\ Keys(a) = Keys(b)
    /\ \A k \in Keys(a) : Get(a, k) = Get(b, k)

-----------------------------------------------------------------------------
(* JSON documents as lexemes *)

Punct(c) == [t |-> "punct", s |-> c, l |-> <<>>]
StrLit(x) == [t |-> "strlit", s |-> x, l |-> <<>>]
Lit(w) == [t |-> "lit", s |-> w, l |-> <<>>]
Ws(w) == [t |-> "ws", s |-> w, l |-> <<>>]
Word(w) == [t |-> "word", s |-> w, l |-> <<>>]

RECURSIVE Spaces(_)
Spaces(n) == IF n = 0 THEN "" ELSE " " \o Spaces(n - 1)

Indent == 2

\* newline and indentation of json.dumps(..., indent=w) at nesting depth
Newline(w, depth) == <<Ws("\n" \o Spaces(w * depth))>>

\* the separator after a comma: ", " without indent, a new line with it
ItemSep(w, depth) == IF w = 0 THEN <<Punct(","), Ws(" ")>> ELSE <<Punct(",")>> \o Newline(w, depth)

RECURSIVE DumpsAt(_, _, _), DumpItems(_, _, _)
\* json.dumps(v, indent=w, ensure_ascii=False); w = 0 stands for indent=None
DumpsAt(v, w, depth) ==
    CASE v.t = "null" -> <<Lit("null")>>
      [] v.t = "str" -> <<StrLit(v.s)>>
      [] v.t = "pair" -> <<StrLit(v.s), Punct(":"), Ws(" ")>> \o DumpsAt(v.l[1], w, depth)
      [] v.t = "list" ->
            IF v.l = <<>> THEN <<Punct("["), Punct("]")>>
            ELSE <<Punct("[")>>
                 \o (IF w = 0 THEN <<>> ELSE Newline(w, depth + 1))
                 \o DumpItems(v.l, w, depth + 1)
                 \o (IF w = 0 THEN <<>> ELSE Newline(w, depth))
                 \o <<Punct("]")>>
      [] v.t = "dict" ->
            IF v.l = <<>> THEN <<Punct("{"), Punct("}")>>
            ELSE <<Punct("{")>>
                 \o (IF w = 0 THEN <<>> ELSE Newline(w, depth + 1))
                 \o DumpItems(v.l, w, depth + 1)
                 \o (IF w = 0 THEN <<>> ELSE Newline(w, depth))
                 \o <<Punct("}")>>

DumpItems(items, w, depth) ==
    IF Len(items) = 1 THEN DumpsAt(items[1], w, depth)
    ELSE DumpsAt(items[1], w, depth) \o ItemSep(w, depth) \o DumpItems(Tail(items), w, depth)

Dumps(v, w) == Text(DumpsAt(v, w, 0))

RECURSIVE SkipWs(_)
SkipWs(toks) ==
    IF toks # <<>> /\ toks[1].t = "ws" THEN SkipWs(Tail(toks)) ELSE toks

Fail == [ok |-> FALSE, val |-> PyNone, rest |-> <<>>]
Ok(v, rest) == [ok |-> TRUE, val |-> v, rest |-> rest]

IsPunct(toks, c) == toks # <<>> /\ toks[1] = Punct(c)

RECURSIVE ParseValue(_), ParseArray(_, _), ParseObject(_, _)
\* json.scanner: one value at the head of toks
ParseValue(toks) ==
    IF toks = <<>> THEN Fail
    ELSE CASE toks[1].t = "strlit" -> Ok(Str(toks[1].s), Tail(toks))
           [] toks[1] = Lit("null") -> Ok(PyNone, Tail(toks))
           [] toks[1] = Punct("[") ->
                IF IsPunct(SkipWs(Tail(toks)), "]")
                THEN Ok(List(<<>>), Tail(SkipWs(Tail(toks))))
                ELSE ParseArray(SkipWs(Tail(toks)), <<>>)
           [] toks[1] = Punct("{") ->
                IF IsPunct(SkipWs(Tail(toks)), "}")
                THEN Ok(Dict(<<>>), Tail(SkipWs(Tail(toks))))
                ELSE ParseObject(SkipWs(Tail(toks)), Dict(<<>>))
           [] OTHER -> Fail

\* json.decoder.JSONArray, after "[" and with acc already read
ParseArray(toks, acc) ==
    LET v == ParseValue(toks)
        after == SkipWs(v.rest)
    IN  IF ~v.ok THEN Fail
        ELSE IF IsPunct(after, "]") THEN Ok(List(Append(acc, v.val)), Tail(after))
        ELSE IF IsPunct(after, ",") THEN ParseArray(SkipWs(Tail(after)), Append(acc, v.val))
        ELSE Fail

\* json.decoder.JSONObject, after "{" and with acc already read
ParseObject(toks, acc) ==
    IF toks = <<>> \/ toks[1].t # "strlit" THEN Fail
    ELSE LET colon == SkipWs(Tail(toks))
         IN  IF ~IsPunct(colon, ":") THEN Fail
             ELSE LET v == ParseValue(SkipWs(Tail(colon)))
                      after == SkipWs(v.rest)
                      acc2 == DictSet(acc, toks[1].s, v.val)
                  IN  IF ~v.ok THEN Fail
                      ELSE IF IsPunct(after, "}") THEN Ok(acc2, Tail(after))
                      ELSE IF IsPunct(after, ",") THEN ParseObject(SkipWs(Tail(after)), acc2)
                      ELSE Fail

\* a json.loads that stops at the end of the first value
JsonLoadsPrefix(text) ==
    LET v == ParseValue(SkipWs(text.l))
    IN  IF v.ok THEN v ELSE Fail

\* json.loads(text): ok = FALSE stands for json.JSONDecodeError
JsonLoads(text) ==
    LET v == ParseValue(SkipWs(text.l))
    IN  IF v.ok /\ SkipWs(v.rest) = <<>> THEN v ELSE Fail

-----------------------------------------------------------------------------
(* The functions of the script *)

_blank_minutes ==
    Dict(<< Pair("summary", Str("")),
            Pair("key_points", List(<<>>)),
            Pair("decisions", List(<<>>)),
            Pair("action_items", List(<<>>)),
            Pair("risks_open_questions", List(<<>>)) >>)

Returned(v) == [exc |-> "", val |-> v]
Raised(e) == [exc |-> e, val |-> PyNone]

\* lines 124-129 returning the parsed object as it came
ParseNoTemplate(text) ==
    IF text.t # "text" THEN Raised("TypeError")
    ELSE LET parsed == JsonLoads(text)
         IN  IF ~parsed.ok THEN Returned(Dict(<<Pair("raw_response", text)>>))
             ELSE IF parsed.val.t # "dict" THEN Raised("TypeError")
             ELSE Returned(parsed.val)

\* lines 124-129 of summarize_meeting, applied to response.text
ParseResponse(text) ==
    IF text.t # "text" THEN Raised("TypeError")
    ELSE LET parsed == JsonLoads(text)
         IN  IF ~parsed.ok THEN Returned(Dict(<<Pair("raw_response", text)>>))
             ELSE IF parsed.val.t # "dict" THEN Raised("TypeError")
             ELSE Returned(Merge(_blank_minutes, parsed.val))

\* U+2014, spelled as JSON spells it
EmDash == "\\u2014"

\* str(v) inside an f-string
PyStr(v) == IF v.t = "null" THEN "None" ELSE v.s

RECURSIVE Join(_, _)
\* sep.join(parts)
Join(sep, parts) ==
    IF parts = <<>> THEN ""
    ELSE IF Len(parts) = 1 THEN parts[1]
    ELSE parts[1] \o sep \o Join(sep, Tail(parts))

\* a formatter that appends every part, empty or not
FormatAllParts(it) ==
    LET owner == GetOr(it, "owner", Str("Unassigned"))
        task == GetOr(it, "task", Str("Task not specified"))
        due == GetOr(it, "due", PyNone)
        priority == GetOr(it, "priority", PyNone)
    IN  Join(" | ", << "**" \o PyStr(owner) \o "** " \o EmDash \o " " \o PyStr(task),
                       "**Due:** " \o PyStr(due),
                       "**Priority:** " \o PyStr(priority) >>)

format_action_item(it) ==
    LET owner == GetOr(it, "owner", Str("Unassigned"))
        task == GetOr(it, "task", Str("Task not specified"))
        due == GetOr(it, "due", PyNone)
        priority == GetOr(it, "priority", PyNone)
        parts == << "**" \o PyStr(owner) \o "** " \o EmDash \o " " \o PyStr(task) >>
                 \o (IF Truthy(due) THEN << "**Due:** " \o PyStr(due) >> ELSE <<>>)
                 \o (IF Truthy(priority) THEN << "**Priority:** " \o PyStr(priority) >> ELSE <<>>)
    IN  Join(" | ", parts)

-----------------------------------------------------------------------------
(* What the model may send back *)

FieldNames == <<"summary", "key_points", "decisions", "action_items", "risks_open_questions">>
Fields == {FieldNames[i] : i \in DOMAIN FieldNames}

SeqsUpTo(pool, n) == UNION {[1..k -> pool] : k \in 0..n}

BobsItem ==
    Dict(<< Pair("owner", Str("Bob")), Pair("task", Str("Write release notes")),
            Pair("due", Str("Friday")), Pair("priority", Str("Medium")) >>)

\* the values a reply may give to a field, typed as the prompt's schema asks
FieldValues(f) ==
    CASE f = "summary" -> {Str(""), Str("Team planned v2 release.")}
      [] f = "key_points" -> {List(xs) : xs \in SeqsUpTo({Str("Ship v2 by Friday")}, MaxListLen)}
      [] f = "decisions" -> {List(xs) : xs \in SeqsUpTo({Str("Ship v2")}, MaxListLen)}
      [] f = "action_items" -> {List(xs) : xs \in SeqsUpTo({BobsItem}, MaxListLen)}
      [] f = "risks_open_questions" -> {List(xs) : xs \in SeqsUpTo({Str("Is QA ready?")}, MaxListLen)}

Assignments(S) ==
    {a \in [S -> UNION {FieldValues(f) : f \in S}] : \A f \in S : a[f] \in FieldValues(f)}

Reverse(xs) == [i \in DOMAIN xs |-> xs[Len(xs) + 1 - i]]

\* the dict with the fields of S in the order of names, valued by a
ObjectOf(names, S, a) ==
    LET chosen == SelectSeq(names, LAMBDA f : f \in S)
    IN  Dict([i \in DOMAIN chosen |-> Pair(chosen[i], a[chosen[i]])])

\* every JSON object made of a subset of the five fields, in schema or reverse order
MinutesObjects ==
    UNION {UNION {{ObjectOf(FieldNames, S, a), ObjectOf(Reverse(FieldNames), S, a)} :
                    a \in Assignments(S)} : S \in SUBSET Fields}

\* JSON values that are not objects
OtherValues == {PyNone, Str("Done."), List(<<>>), List(<<Str("Ship v2")>>)}

\* ways a reply fails to be a JSON document
Damages == {"truncated", "prose_before", "trailing_comma", "extra_after"}

Damaged(toks, damage) ==
    CASE damage = "none" -> toks
      [] damage = "truncated" -> Front(toks)
      [] damage = "prose_before" -> <<Word("Sure!"), Ws(" ")>> \o toks
      [] damage = "trailing_comma" -> Append(Append(Front(toks), Punct(",")), toks[Len(toks)])
      [] damage = "extra_after" -> Append(toks, Punct("}"))
      [] damage = "prose_only" -> <<Word("Sorry"), Ws(" "), Word("I"), Ws(" "), Word("cannot")>>
      [] damage = "empty" -> <<>>

\* response.text of a reply: the value v written with indent w, then damaged;
\* a response without text parts has text None
ReplyText(r) ==
    IF r.damage = "no_text" THEN PyNone
    ELSE Text(Damaged(Dumps(r.obj, r.w).l, r.damage))

Reply(v, w, damage) == [obj |-> v, w |-> w, damage |-> damage]

Replies ==
    {Reply(v, w, d) : v \in MinutesObjects \cup OtherValues, w \in {0, Indent}, d \in Damages \cup {"none"}}
    \cup {Reply(PyNone, 0, d) : d \in {"prose_only", "empty"}}

NotCalled == Raised("not called")
NoReply == Reply(PyNone, 0, "unasked")
Unanswered == Reply(PyNone, 0, "unanswered")

\* client.models.generate_content: the call raises or brings a response
ResponseOf(r) ==
    IF r.damage = "unanswered" THEN Raised("APIError") ELSE Returned(ReplyText(r))

-----------------------------------------------------------------------------
(* The script, top to bottom *)

\* a resolver that lets the secrets store's exception through
LoadApiKeyUncaught(sec, env) ==
    IF sec.exc # "" THEN Raised(sec.exc)
    ELSE IF Truthy(sec.val) THEN Returned(sec.val)
    ELSE IF Truthy(env) THEN Returned(env)
    ELSE Returned(Str(""))

load_api_key(sec, env) ==
    IF sec.exc = "" /\ Truthy(sec.val) THEN Returned(sec.val)
    ELSE IF Truthy(env) THEN Returned(env)
    ELSE Returned(Str(""))

IsSpace(c) == c \in {" ", "\n", "\t"}

RECURSIVE LStrip(_)
LStrip(cs) == IF cs # <<>> /\ IsSpace(cs[1]) THEN LStrip(Tail(cs)) ELSE cs

RECURSIVE RStrip(_)
RStrip(cs) == IF cs # <<>> /\ IsSpace(cs[Len(cs)]) THEN RStrip(Front(cs)) ELSE cs

\* str.strip()
Strip(cs) == RStrip(LStrip(cs))

\* the cached get_genai_client(key); builds tells whether genai.Client(...)
\* succeeds when it has to be constructed
get_genai_client(key, cache, builds) ==
    IF key \in cache THEN [exc |-> "", cache |-> cache]
    ELSE IF ~Truthy(key) THEN [exc |-> "ValueError", cache |-> cache]
    ELSE IF ~builds THEN [exc |-> "ClientError", cache |-> cache]
    ELSE [exc |-> "", cache |-> cache \cup {key}]

\* summarize_meeting(client, tr), given what the one call to the model does
summarize_meeting(tr, response) ==
    IF response.exc # ""
    THEN [out |-> response, raw_text |-> Text(<<>>), requests |-> <<tr>>]
    ELSE [out |-> ParseResponse(response.val), raw_text |-> response.val, requests |-> <<tr>>]

MsgNoTranscript == "Please provide a transcript before generating minutes."
MsgNoKey == "No Gemini API key found. Provide it via config.json, the environment, or Streamlit secrets."
MsgMalformed == "Model returned malformed JSON. See raw output below."
MsgSuccess == "Minutes generated successfully!"
MsgFailed(exc) == "Failed to generate minutes: " \o exc

\* lines 238-248 with a malformed branch that also blanks the Minutes
StoreBlanking(h, out) ==
    IF HasKey(out, "raw_response")
    THEN [h EXCEPT !.minutes = _blank_minutes,
                   !.raw_response = Get(out, "raw_response"),
                   !.raw_json = Text(<<>>),
                   !.banner = MsgMalformed]
    ELSE [h EXCEPT !.minutes = out,
                   !.raw_json = Dumps(out, Indent),
                   !.raw_response = Text(<<>>),
                   !.banner = MsgSuccess]

\* lines 238-248 without line 241
StoreKeepingJson(h, out) ==
    IF HasKey(out, "raw_response")
    THEN [h EXCEPT !.raw_response = Get(out, "raw_response"),
                   !.banner = MsgMalformed]
    ELSE [h EXCEPT !.minutes = out,
                   !.raw_json = Dumps(out, Indent),
                   !.raw_response = Text(<<>>),
                   !.banner = MsgSuccess]

\* lines 238-248: what the handler does with the dict summarize_meeting returned
StoreOutcome(h, out) ==
    IF HasKey(out, "raw_response")
    THEN [h EXCEPT !.raw_response = Get(out, "raw_response"),
                   !.raw_json = Text(<<>>),
                   !.banner = MsgMalformed]
    ELSE [h EXCEPT !.minutes = out,
                   !.raw_json = Dumps(out, Indent),
                   !.raw_response = Text(<<>>),
                   !.banner = MsgSuccess]

\* the session state and the run's locals before the handler runs
Untouched(m, rj, rr, cache) ==
    [minutes |-> m, raw_json |-> rj, raw_response |-> rr, cache |-> cache,
     banner |-> "", requests |-> <<>>, reply |-> NoReply,
     raw_text |-> Text(<<>>), summary |-> NotCalled]

\* a handler that calls the model again when the first call raises
HandlerRetrying(h, tr, key, world) ==
    IF Strip(tr) = <<>> THEN [h EXCEPT !.banner = MsgNoTranscript]
    ELSE IF ~Truthy(key) THEN [h EXCEPT !.banner = MsgNoKey]
    ELSE LET client == get_genai_client(key, h.cache, world.builds)
         IN  IF client.exc # "" THEN [h EXCEPT !.banner = MsgFailed(client.exc)]
             ELSE LET call == summarize_meeting(Strip(tr), ResponseOf(world.reply))
                      sent == [h EXCEPT !.cache = client.cache,
                                        !.requests = IF call.out.exc = "APIError"
                                                     THEN call.requests \o call.requests
                                                     ELSE call.requests,
                                        !.reply = world.reply,
                                        !.raw_text = call.raw_text,
                                        !.summary = call.out]
                  IN  IF call.out.exc # "" THEN [sent EXCEPT !.banner = MsgFailed(call.out.exc)]
                      ELSE StoreOutcome(sent, call.out.val)

\* lines 224-250, the Generate Minutes handler
GenerateHandler(h, tr, key, world) ==
    IF Strip(tr) = <<>> THEN [h EXCEPT !.banner = MsgNoTranscript]
    ELSE IF ~Truthy(key) THEN [h EXCEPT !.banner = MsgNoKey]
    ELSE LET client == get_genai_client(key, h.cache, world.builds)
         IN  IF client.exc # "" THEN [h EXCEPT !.banner = MsgFailed(client.exc)]
             ELSE LET call == summarize_meeting(Strip(tr), ResponseOf(world.reply))
                      sent == [h EXCEPT !.cache = client.cache,
                                        !.requests = call.requests,
                                        !.reply = world.reply,
                                        !.raw_text = call.raw_text,
                                        !.summary = call.out]
                  IN  IF call.out.exc # "" THEN [sent EXCEPT !.banner = MsgFailed(call.out.exc)]
                      ELSE StoreOutcome(sent, call.out.val)

TAB_NAMES == <<"Summary", "Actions", "Decisions", "Risks">>

Paragraph(x) == [t |-> "p", s |-> x, l |-> <<>>]
Bullets(xs) == [t |-> "ul", s |-> "", l |-> xs]
Placeholder(msg) == [t |-> "placeholder", s |-> msg, l |-> <<>>]

\* a bulleted list of the elements of v, or the placeholder when v is empty
BulletsOr(v, msg) ==
    IF Truthy(v) THEN <<Bullets([i \in DOMAIN v.l |-> PyStr(v.l[i])])>>
    ELSE <<Placeholder(msg)>>

\* lines 252-315: what each of the four tabs shows for the Minutes m
RenderTabs(m) ==
    LET summary_text == GetOr(m, "summary", Str(""))
        key_points == GetOr(m, "key_points", List(<<>>))
        actions == GetOr(m, "action_items", List(<<>>))
        decisions == GetOr(m, "decisions", List(<<>>))
        risks == GetOr(m, "risks_open_questions", List(<<>>))
    IN  [tab \in {TAB_NAMES[i] : i \in DOMAIN TAB_NAMES} |->
            CASE tab = "Summary" ->
                    (IF Truthy(summary_text) THEN <<Paragraph(PyStr(summary_text))>> ELSE <<>>)
                    \o (IF Truthy(key_points)
                        THEN <<Bullets([i \in DOMAIN key_points.l |-> PyStr(key_points.l[i])])>>
                        ELSE <<>>)
                    \o (IF ~Truthy(summary_text) /\ ~Truthy(key_points)
                        THEN <<Placeholder("No data to display.")>> ELSE <<>>)
              [] tab = "Actions" ->
                    IF Truthy(actions)
                    THEN <<Bullets([i \in DOMAIN actions.l |-> format_action_item(actions.l[i])])>>
                    ELSE <<Placeholder("No action items to display.")>>
              [] tab = "Decisions" -> BulletsOr(decisions, "No decisions to display.")
              [] tab = "Risks" -> BulletsOr(risks, "No risks or open questions to display.")]

Hidden == [t |-> "hidden", s |-> "", l |-> <<>>]
Info(msg) == [t |-> "info", s |-> msg, l |-> <<>>]

\* lines 320-325: the Copy JSON column
CopyColumn(clicked, rj) ==
    IF ~clicked THEN Hidden
    ELSE IF Truthy(rj) THEN rj
    ELSE Info("Generate minutes first to view JSON.")

\* lines 327-337: the Download JSON button
DownloadButton(m) ==
    [data |-> Dumps(m, Indent),
     disabled |-> ~Truthy(GetOr(m, "summary", PyNone)) /\ ~Truthy(GetOr(m, "action_items", PyNone))]

\* an expander shown whatever raw_response holds
ExpanderAlways(rr) == rr

\* lines 348-350: the raw output expander
Expander(rr) == IF Truthy(rr) THEN rr ELSE Hidden

\* everything a run shows below the transcript box
Render(banner, m, rj, rr, copy_clicked) ==
    [banner |-> banner,
     tabs |-> RenderTabs(m),
     copy |-> CopyColumn(copy_clicked, rj),
     download |-> DownloadButton(m),
     expander |-> Expander(rr)]

\* the run stopped at an uncaught exception before anything was drawn
Crashed(exc) ==
    [banner |-> exc, tabs |-> [tab \in {TAB_NAMES[i] : i \in DOMAIN TAB_NAMES} |-> <<>>],
     copy |-> Hidden, download |-> [data |-> Text(<<>>), disabled |-> TRUE], expander |-> Hidden]

-----------------------------------------------------------------------------
(* Sessions the other specifications do not run *)

IdleSession ==
    /\ secrets = Raised("KeyError")
    /\ environ = PyNone
    /\ transcript = <<>>
    /\ minutes = _blank_minutes
    /\ raw_json = Text(<<>>)
    /\ raw_response = Text(<<>>)
    /\ client_cache = {}
    /\ event = "none"
    /\ api_key = NotCalled
    /\ requests = <<>>
    /\ screen = Crashed("")

-----------------------------------------------------------------------------
(* summarize_meeting on its own: every reply, parsed once *)

InitSummarize ==
    /\ pc = "summarize"
    /\ reply \in Replies
    /\ raw_text = ReplyText(reply)
    /\ summary = NotCalled
    /\ item = PyNone
    /\ line = ""
    /\ IdleSession

Summarize ==
    /\ pc = "summarize"
    /\ summary' = ParseResponse(raw_text)
    /\ pc' = "summarized"
    /\ UNCHANGED <<reply, raw_text, formatter, session>>

NextSummarize == Summarize

SpecSummarize == InitSummarize /\ [][NextSummarize]_vars

\* C2: a reply that is a JSON object made of a subset of the five Minutes
\* fields comes back with all five fields, each given field with the model's
\* value and each missing one with its empty default; a complete object
\* comes back equal to itself.
C2_MergeOverBlank ==
    (pc = "summarized" /\ reply.damage = "none" /\ reply.obj.t = "dict") =>
        /\ summary.exc = ""
        /\ summary.val.t = "dict"
        /\ Len(summary.val.l) = 5
        /\ Keys(summary.val) = Fields
        /\ \A f \in Fields :
              Get(summary.val, f) =
                  IF f \in Keys(reply.obj) THEN Get(reply.obj, f)
                  ELSE IF f = "summary" THEN Str("") ELSE List(<<>>)
        /\ (Keys(reply.obj) = Fields => DictEq(summary.val, reply.obj))

C2_Witness ==
    /\ pc = "summarized"
    /\ reply.damage = "none"
    /\ reply.obj.t = "dict"
    /\ Keys(reply.obj) = {"summary", "action_items"}
    /\ Get(reply.obj, "action_items") = List(<<BobsItem>>)
    /\ Get(summary.val, "action_items") = List(<<BobsItem>>)
    /\ Get(summary.val, "key_points") = List(<<>>)

-----------------------------------------------------------------------------
(* format_action_item on its own: every item, formatted once *)

ItemKeys == <<"owner", "task", "due", "priority">>

SampleValue(k) ==
    CASE k = "owner" -> "Bob"
      [] k = "task" -> "Write release notes"
      [] k = "due" -> "Friday"
      [] k = "priority" -> "Medium"

ItemKeySet == {ItemKeys[i] : i \in DOMAIN ItemKeys}

ItemValue(k, kind) ==
    CASE kind = "none" -> PyNone
      [] kind = "empty" -> Str("")
      [] kind = "value" -> Str(SampleValue(k))

\* each key is absent, None, "" or a non-empty str
Items ==
    {ObjectOf(ItemKeys, S, [k \in S |-> ItemValue(k, a[k])]) :
        S \in SUBSET ItemKeySet, a \in [ItemKeySet -> {"none", "empty", "value"}]}

InitFormat ==
    /\ pc = "format"
    /\ item \in Items
    /\ line = ""
    /\ reply = NoReply
    /\ raw_text = Text(<<>>)
    /\ summary = NotCalled
    /\ IdleSession

FormatItem ==
    /\ pc = "format"
    /\ line' = format_action_item(item)
    /\ pc' = "formatted"
    /\ UNCHANGED <<item, locals, session>>

NextFormat == FormatItem

SpecFormat == InitFormat /\ [][NextFormat]_vars

IsStr(v) == v.t = "str"
NonEmptyStr(v) == v.t = "str" /\ v.s # ""

\* the keys of the item that hold a non-empty str
Filled(it) == {k \in Keys(it) : NonEmptyStr(Get(it, k))}

\* C9: with owner, task, due and priority all non-empty the line is
\* "**owner** - task | **Due:** due | **Priority:** priority"; with only a
\* task it is "**Unassigned** - task"; a due or a priority that is absent or
\* "" adds neither a part nor a delimiter; an absent task reads
\* "Task not specified".
C9_FormatActionItem ==
    (pc = "formatted" /\ (\A k \in Keys(item) : IsStr(Get(item, k)))
                      /\ (\A j \in Keys(item) \cap {"owner", "task"} : NonEmptyStr(Get(item, j)))) =>
        LET owner == IF HasKey(item, "owner") THEN Get(item, "owner").s ELSE "Unassigned"
            task == IF HasKey(item, "task") THEN Get(item, "task").s ELSE "Task not specified"
            head == "**" \o owner \o "** " \o EmDash \o " " \o task
            duePart == IF "due" \in Filled(item) THEN " | **Due:** " \o Get(item, "due").s ELSE ""
            priorityPart == IF "priority" \in Filled(item)
                            THEN " | **Priority:** " \o Get(item, "priority").s ELSE ""
        IN  /\ line = head \o duePart \o priorityPart
            /\ Filled(item) = ItemKeySet =>
                  line = "**" \o Get(item, "owner").s \o "** " \o EmDash \o " " \o Get(item, "task").s
                         \o " | **Due:** " \o Get(item, "due").s
                         \o " | **Priority:** " \o Get(item, "priority").s
            /\ Keys(item) = {"task"} => line = "**Unassigned** " \o EmDash \o " " \o Get(item, "task").s

C9_Witness ==
    /\ pc = "formatted"
    /\ item = BobsItem
    /\ line = "**Bob** \\u2014 Write release notes | **Due:** Friday | **Priority:** Medium"

-----------------------------------------------------------------------------
(* A session of the app: one script run per interaction *)

SecretsOutcomes ==
    {Returned(Str("key-from-secrets")), Returned(Str("")),
     Raised("KeyError"), Raised("FileNotFoundError")}

EnvValues == {Str("key-from-env"), Str(""), PyNone}

Transcripts == SeqsUpTo({" ", "a"}, MaxTranscriptLen)

\* the longest value a reply may give to a field
FullValue(f) ==
    IF f = "summary" THEN Str("Team planned v2 release.")
    ELSE CHOOSE v \in FieldValues(f) : Len(v.l) = MaxListLen

SummaryOnly == Dict(<<Pair("summary", Str("Team planned v2 release."))>>)

BobsReply ==
    Dict(<< Pair("summary", Str("Team planned v2 release.")),
            Pair("action_items", List(<<BobsItem>>)) >>)

FullReply == Dict([i \in DOMAIN FieldNames |-> Pair(FieldNames[i], FullValue(FieldNames[i]))])

\* a JSON object that happens to carry the key the handler tests for
CarriesRawKey ==
    Dict(<< Pair("summary", Str("Team planned v2 release.")),
            Pair("raw_response", Str("n/a")) >>)

SessionReplies ==
    {Reply(v, 0, "none") : v \in {Dict(<<>>), SummaryOnly, BobsReply, FullReply, CarriesRawKey, List(<<>>)}}
    \cup {Reply(BobsReply, Indent, "none"), Reply(BobsReply, 0, "truncated"),
          Reply(PyNone, 0, "prose_only"), Reply(PyNone, 0, "empty"), Reply(PyNone, 0, "no_text"),
          Unanswered}

\* what the services outside the script do during one run
Worlds == [builds : BOOLEAN, reply : SessionReplies]

\* a Clear Screen that resets the Minutes only
ClearMinutesOnly(h) == [h EXCEPT !.minutes = _blank_minutes]

\* lines 341-343, the Clear Screen handler
ClearHandler(h) ==
    [h EXCEPT !.minutes = _blank_minutes,
              !.raw_json = Text(<<>>),
              !.raw_response = Text(<<>>)]

Init ==
    /\ pc = "session"
    /\ reply = NoReply
    /\ raw_text = Text(<<>>)
    /\ summary = NotCalled
    /\ item = PyNone
    /\ line = ""
    /\ secrets \in SecretsOutcomes
    /\ environ \in EnvValues
    /\ transcript = <<>>
    /\ minutes = _blank_minutes
    /\ raw_json = Text(<<>>)
    /\ raw_response = Text(<<>>)
    /\ client_cache = {}
    /\ event = "load"
    /\ api_key = load_api_key(secrets, environ)
    /\ requests = <<>>
    /\ screen = IF api_key.exc # "" THEN Crashed(api_key.exc)
                ELSE Render("", minutes, raw_json, raw_response, FALSE)

\* one run of the script for the interaction ev, the text area holding tr;
\* Clear Screen ends in st.experimental_rerun(), a second run without a click
Run(ev, tr, world) ==
    \E key \in {load_api_key(secrets, environ)} :
    \E h1 \in {IF ev = "generate"
                THEN GenerateHandler(Untouched(minutes, raw_json, raw_response, client_cache),
                                     tr, key.val, world)
                ELSE Untouched(minutes, raw_json, raw_response, client_cache)} :
    \E h2 \in {IF ev = "clear" THEN ClearHandler(h1) ELSE h1} :
        /\ pc = "session"
        /\ event' = ev
        /\ transcript' = tr
        /\ api_key' = key
        /\ IF key.exc # ""
           THEN /\ screen' = Crashed(key.exc)
                /\ requests' = <<>>
                /\ reply' = NoReply
                /\ raw_text' = Text(<<>>)
                /\ summary' = NotCalled
                /\ UNCHANGED <<minutes, raw_json, raw_response, client_cache>>
           ELSE /\ minutes' = h2.minutes
                /\ raw_json' = h2.raw_json
                /\ raw_response' = h2.raw_response
                /\ client_cache' = h2.cache
                /\ requests' = h2.requests
                /\ reply' = h2.reply
                /\ raw_text' = h2.raw_text
                /\ summary' = h2.summary
                /\ screen' = Render(h2.banner, h2.minutes, h2.raw_json, h2.raw_response, ev = "copy")
        /\ UNCHANGED <<pc, formatter, secrets, environ>>

IdleWorld == [builds |-> TRUE, reply |-> Unanswered]

GenerateMinutes == \E world \in Worlds : Run("generate", transcript, world)

CopyJSON == Run("copy", transcript, IdleWorld)

DownloadJSON == Run("download", transcript, IdleWorld)

ClearScreen == Run("clear", transcript, IdleWorld)

EditTranscript == \E tr \in Transcripts \ {transcript} : Run("edit", tr, IdleWorld)

Next ==
    \/ GenerateMinutes
    \/ CopyJSON
    \/ DownloadJSON
    \/ ClearScreen
    \/ EditTranscript

Spec == Init /\ [][Next]_vars

-----------------------------------------------------------------------------
(* Properties of a session *)

\* C1: the resolved key is the secrets value when that is non-empty, else the
\* environment value when that is non-empty, else ""; a lookup that raises
\* counts as a missing key and nothing is raised to the script.
C1_CredentialPriority ==
    pc = "session" =>
        /\ api_key.exc = ""
        /\ secrets = Returned(Str("key-from-secrets")) => api_key.val = Str("key-from-secrets")
        /\ (secrets # Returned(Str("key-from-secrets")) /\ environ = Str("key-from-env"))
              => api_key.val = Str("key-from-env")
        /\ (secrets # Returned(Str("key-from-secrets")) /\ environ # Str("key-from-env"))
              => api_key.val = Str("")

C1_Witness ==
    /\ event = "generate"
    /\ secrets = Raised("KeyError")
    /\ environ = Str("key-from-env")
    /\ api_key = Returned(Str("key-from-env"))
    /\ requests # <<>>

FailureBanners ==
    {MsgMalformed} \cup {MsgFailed(e) : e \in {"ClientError", "APIError", "TypeError", "ValueError"}}

\* C4: a Generate click that ends in the malformed-output banner or in the
\* "Failed to generate minutes" banner leaves the session's Minutes exactly
\* as they were before the click.
C4_FailureKeepsMinutes ==
    [][(event' = "generate" /\ screen'.banner \in FailureBanners) => minutes' = minutes]_vars

C4_Witness ==
    /\ event = "generate"
    /\ screen.banner = MsgMalformed
    /\ reply.damage = "truncated"
    /\ Get(minutes, "action_items") = List(<<BobsItem>>)

\* C5 as stated: a Generate click sends exactly one request when the trimmed
\* transcript and the key are both non-empty, and none otherwise.
C5_AsStated ==
    event = "generate" =>
        Len(requests) = IF Strip(transcript) # <<>> /\ Truthy(api_key.val) THEN 1 ELSE 0

\* C5 amended: a Generate click sends exactly one request, carrying the
\* trimmed transcript, when the trimmed transcript and the key are non-empty
\* and a client for the key is at hand (cached or built without error); it
\* sends none when the transcript or the key is empty or the client cannot
\* be built; no run sends more than one.
C5_OneRequestWithClient ==
    /\ Len(requests) <= 1
    /\ event # "generate" => requests = <<>>
    /\ event = "generate" =>
          requests = IF Strip(transcript) # <<>> /\ Truthy(api_key.val)
                        /\ api_key.val \in client_cache
                     THEN <<Strip(transcript)>> ELSE <<>>

C5_Witness ==
    /\ event = "generate"
    /\ screen.banner = MsgFailed("APIError")
    /\ transcript = <<" ", "a">>
    /\ requests = << <<"a">> >>

\* C6: after Clear Screen the Minutes are the empty template (five fields,
\* summary "" and four empty lists) and both raw_json and raw_response are
\* empty, whatever the session went through before.
C6_ClearResets ==
    event = "clear" =>
        /\ Len(minutes.l) = 5
        /\ Keys(minutes) = Fields
        /\ Get(minutes, "summary") = Str("")
        /\ \A f \in Fields \ {"summary"} : Get(minutes, f) = List(<<>>)
        /\ raw_json = Text(<<>>)
        /\ raw_response = Text(<<>>)

C6_Witness ==
    /\ event = "clear"
    /\ client_cache # {}
    /\ minutes = _blank_minutes
    /\ screen.expander = Hidden

\* C7: in every state of a session the Minutes have all five fields.
C7_FullyShaped ==
    pc = "session" =>
        /\ minutes.t = "dict"
        /\ Fields \subseteq Keys(minutes)

C7_Witness ==
    /\ event = "generate"
    /\ screen.banner = MsgSuccess
    /\ reply.obj = SummaryOnly
    /\ Get(minutes, "summary") = Str("Team planned v2 release.")
    /\ Get(minutes, "risks_open_questions") = List(<<>>)

\* the ways a reply's text fails to be JSON
NotJson == Damages \cup {"prose_only", "empty"}

TabsShowContent(tabs) ==
    \E tab \in DOMAIN tabs : \E i \in DOMAIN tabs[tab] : tabs[tab][i].t # "placeholder"

C10_JsonMatchesMinutes ==
    pc = "session" =>
        /\ raw_json = Text(<<>>) \/ raw_json = Dumps(minutes, Indent)
        /\ Truthy(raw_json) => /\ ~Truthy(raw_response)
                               /\ JsonLoads(raw_json).ok
                               /\ DictEq(JsonLoads(raw_json).val, minutes)
        /\ screen.copy.t = "text" => screen.copy = screen.download.data

C10_Witness ==
    /\ event = "copy"
    /\ Truthy(raw_json)
    /\ screen.copy = raw_json
    /\ screen.copy = screen.download.data
    /\ Get(minutes, "action_items") = List(<<BobsItem>>)

====
